---- MODULE Spec2Model ----
(***************************************************************************)
(* ChargePoint-Notifier (src/index.js, the version that starts at line     *)
(* 179 of the file: the one with the firstRun parameter and the working-   *)
(* hours gate).                                                            *)
(*                                                                         *)
(* The program is one async function, pollChargePoint, started once at     *)
(* module load and re-armed with setTimeout.  The model keeps the module-  *)
(* level variables of the script, the timers of the event loop, the        *)
(* invocations of pollChargePoint that are suspended at an await, and what *)
(* the last cycle wrote to the console / posted to the webhook.            *)
(*                                                                         *)
(* Conventions                                                             *)
(*   - a JS string that the program splits or uses as an object key is a   *)
(*     sequence of tokens (<<"farzaddaei">>, <<":">>, ...); the empty      *)
(*     string is <<>>;                                                     *)
(*   - a JS value that may be null/undefined is a sequence of length 0     *)
(*     (absent) or 1 (present);                                            *)
(*   - a decimal string of the remote API is a sequence of digits;         *)
(*   - wall-clock time `now` is in milliseconds since a local Sunday 00:00.*)
(***************************************************************************)
EXTENDS Integers, Sequences, FiniteSets, TLC

(***************************************************************************)
(* Bounds of the model (not program constants).                            *)
(***************************************************************************)
\* invocations of pollChargePoint explored in one behaviour
MaxCycles == 3

(***************************************************************************)
(* Program constants (defaults of the configuration surface).              *)
(***************************************************************************)
pollingDelay        == 60 * 1000
authDelay           == 30 * 60 * 1000
exitWarningOffset   == 5 * 60
workingStarTime     == 8
workingStopTime     == 18
sundayDayOfWeek     == 1
saturdayDayOfWeek   == 6
weekendSleepTime    == 6 * 60 * 60 * 1000
afterHoursSleepTime == 60 * 60 * 1000

Outlets == {1, 2}

\* JS truthiness of an optional string: undefined and "" are falsy
Truthy(opt) == opt # <<>> /\ opt[1] # <<>>

\* the values process.env.CPN_DEBUG_MODE can have: unset, or any string (the
\* empty one too)
DebugEnvValues == { <<>>, << <<>> >>, << << "false" >> >>, << << "0" >> >>, << << "true" >> >> }

\* process.env.CPN_DEBUG_MODE || true, as the test if (DEBUG_MODE) sees it:
\* a || b is a when a is truthy (and then the test passes), else b, the
\* literal true
DebugModeOf(env) == IF Truthy(env) THEN Truthy(env) ELSE TRUE

\* const DEBUG_MODE: the one value it has whatever the environment says
DEBUG_MODE == CHOOSE b \in BOOLEAN : \A env \in DebugEnvValues : DebugModeOf(env) = b

(***************************************************************************)
(* Strings as token sequences: String.prototype.split                      *)
(***************************************************************************)
RECURSIVE SplitFrom(_, _, _, _)
\* s.split(sep), scanning from position i with the current piece cur
SplitFrom(s, sep, i, cur) ==
    IF i > Len(s) THEN << cur >>
    ELSE IF s[i] = sep THEN << cur >> \o SplitFrom(s, sep, i + 1, <<>>)
    ELSE SplitFrom(s, sep, i + 1, Append(cur, s[i]))

Split(s, sep) == SplitFrom(s, sep, 1, <<>>)

\* process.env.CPN_SLACK_USER_IDS as configured here: two users, then an
\* entry without ':' and an empty entry (both skipped)
SlackUserIdsEnv ==
    << << "farzaddaei", ":", "WCMTDDDRV", ";", "alice", ":", "WALICE", ";", "bob", ";" >> >>

\* const slackUserIdsString = process.env.CPN_SLACK_USER_IDS || 'farzaddaei:WCMTDDDRV';
slackUserIdsString(env) ==
    IF Truthy(env) THEN env[1] ELSE << "farzaddaei", ":", "WCMTDDDRV" >>

RECURSIVE ParseEntries(_, _, _)
\* slackUserIdsString.split(';').forEach(user => { ... }) over entries[i..]
ParseEntries(entries, i, ids) ==
    IF i > Len(entries) THEN ids
    ELSE LET userParts == Split(entries[i], ":")
         IN  IF Len(userParts) < 2
             THEN ParseEntries(entries, i + 1, ids)
             ELSE ParseEntries(entries, i + 1,
                     [k \in (DOMAIN ids) \cup { userParts[1] } |->
                         IF k = userParts[1] THEN userParts[2] ELSE ids[k]])

\* the object slackUserIds after the start-up parsing block; it starts as {}
ParseSlackUserIds(str) == ParseEntries(Split(str, ";"), 1, [k \in {} |-> <<>>])

\* property names every plain object ({}) inherits from Object.prototype
ObjectPrototypeKeys ==
    { <<"constructor">>, <<"toString">>, <<"valueOf">>, <<"hasOwnProperty">> }

\* obj[key] on a plain object: own property, else the inherited one, else
\* undefined (<<>>).  An inherited value is a function, shown as a token.
PropertyGet(obj, key) ==
    IF key \in DOMAIN obj THEN << obj[key] >>
    ELSE IF key \in ObjectPrototypeKeys THEN << << "[Function]" >> >>
    ELSE <<>>

(***************************************************************************)
(* parseInt on a decimal string                                            *)
(***************************************************************************)
RECURSIVE ParseDigits(_, _, _)
ParseDigits(s, i, acc) ==
    IF i > Len(s) THEN acc ELSE ParseDigits(s, i + 1, acc * 10 + s[i])

parseInt(s) == ParseDigits(s, 1, 0)


(***************************************************************************)
(* The remote API's answers                                                *)
(***************************************************************************)
\* the display name (subscriberEvatarName) the remote system reports for a
\* subscriber: two names the configuration maps, one it does not map, and one
\* that is a property of Object.prototype
NameOf(s) ==
    CASE s = "s1" -> << "farzaddaei" >>
      [] s = "s2" -> << "alice" >>
      [] s = "s3" -> << "bob" >>
      [] OTHER    -> << "constructor" >>

\* pluginEpochTime, a decimal string of milliseconds; whole seconds only, so
\* that parseInt(...) / 1000 is an integer
Plugged1000 == << 1, 0, 0, 0, 0, 0, 0 >>
Plugged1001 == << 1, 0, 0, 1, 0, 0, 0 >>

\* (maxChargingTime, currTime) as decimal strings: with startTime 1000 and the
\* warning offset 300 these are: exactly at the threshold, and one second
\* short of it by either field
AtThreshold  == << << 7, 2, 0, 0 >>, << 7, 9, 0, 0 >> >>
MaxOneAbove  == << << 7, 2, 0, 1 >>, << 7, 9, 0, 0 >> >>
CurrOneBelow == << << 7, 2, 0, 0 >>, << 7, 8, 9, 9 >> >>
Headers      == { AtThreshold, MaxOneAbove, CurrOneBelow }

RawCharging(s, q, t, o) ==
    [ subscriberId |-> << s >>, subscriberEvatarName |-> NameOf(s),
      subscriberQueueState |-> q, pluginEpochTime |-> t, outletNumber |-> o ]

RawOnHold(s, q, o) ==
    [ subscriberId |-> << s >>, subscriberEvatarName |-> NameOf(s),
      portQueueSubState |-> q, outletNumber |-> o ]

\* malformed remote entries: no subscriberId
RawChargingNoId ==
    [ subscriberId |-> <<>>, subscriberEvatarName |-> << "farzaddaei" >>,
      subscriberQueueState |-> "CHARGING", pluginEpochTime |-> Plugged1000,
      outletNumber |-> 1 ]

RawOnHoldNoId ==
    [ subscriberId |-> <<>>, subscriberEvatarName |-> << "farzaddaei" >>,
      portQueueSubState |-> "ACCEPT_PENDING", outletNumber |-> 1 ]

\* response.data.response.message
RawMessage(hd, charging, onHold) ==
    [ maxChargingTime |-> hd[1], currTime |-> hd[2],
      chargingUsers |-> charging, onHoldUsers |-> onHold ]

\* The answers to POST /community/getStationQueueDetail explored.
\* One charging entry: the first mapped subscriber on either outlet under
\* each header, and on outlet 1 every other case (plugged in a second later,
\* another status, the second mapped subscriber, an unmapped name, a name of
\* Object.prototype, no id).
OneChargingMessages ==
    { RawMessage(hd, << RawCharging("s1", "CHARGING", Plugged1000, o) >>, <<>>) :
        hd \in Headers, o \in Outlets }
    \cup { RawMessage(AtThreshold, << c >>, <<>>) :
        c \in { RawCharging("s1", "CHARGING", Plugged1001, 1),
                RawCharging("s1", "DONE", Plugged1000, 1),
                RawCharging("s2", "CHARGING", Plugged1000, 1),
                RawCharging("s2", "CHARGING", Plugged1000, 2),
                RawCharging("s3", "CHARGING", Plugged1000, 1),
                RawCharging("s4", "CHARGING", Plugged1000, 1),
                RawChargingNoId } }

\* One on-hold entry, likewise.
OneOnHoldMessages ==
    { RawMessage(AtThreshold, <<>>, << h >>) :
        h \in { RawOnHold("s1", "ACCEPT_PENDING", 1),
                RawOnHold("s1", "ACCEPT_PENDING", 2),
                RawOnHold("s1", "WAITING", 1),
                RawOnHold("s2", "ACCEPT_PENDING", 1),
                RawOnHold("s3", "ACCEPT_PENDING", 1),
                RawOnHold("s4", "ACCEPT_PENDING", 1),
                RawOnHoldNoId } }

\* No entry, and two entries: two subscribers reported charging on the same
\* outlet, on two outlets, and one charging while another is on hold.
OtherMessages ==
    { RawMessage(AtThreshold, <<>>, <<>>),
      RawMessage(AtThreshold, << RawCharging("s1", "CHARGING", Plugged1000, 1),
                                 RawCharging("s2", "CHARGING", Plugged1000, 1) >>, <<>>),
      RawMessage(AtThreshold, << RawCharging("s1", "CHARGING", Plugged1000, 1),
                                 RawCharging("s2", "CHARGING", Plugged1000, 2) >>, <<>>),
      RawMessage(AtThreshold, << RawCharging("s1", "CHARGING", Plugged1000, 1) >>,
                              << RawOnHold("s2", "ACCEPT_PENDING", 1) >>) }

RawMessages == OneChargingMessages \cup OneOnHoldMessages \cup OtherMessages

\* data.chargingUsers.map(user => ({...}))
ChargingUserOf(user) ==
    [ id |-> user.subscriberId, name |-> user.subscriberEvatarName,
      status |-> user.subscriberQueueState,
      startTime |-> parseInt(user.pluginEpochTime) \div 1000,
      outlet |-> user.outletNumber, exitNotified |-> FALSE ]

\* data.onHoldUsers.map(user => ({...}))
OnHoldUserOf(user) ==
    [ id |-> user.subscriberId, name |-> user.subscriberEvatarName,
      status |-> user.portQueueSubState,
      outlet |-> user.outletNumber, waitingNotified |-> FALSE ]

\* .filter(user => user.id !== undefined)
HasId(user) == user.id # <<>>

RECURSIVE MapChargingUsers(_, _)
\* data.chargingUsers.map(...), from entry i on
MapChargingUsers(s, i) ==
    IF i > Len(s) THEN <<>> ELSE << ChargingUserOf(s[i]) >> \o MapChargingUsers(s, i + 1)

RECURSIVE MapOnHoldUsers(_, _)
\* data.onHoldUsers.map(...), from entry i on
MapOnHoldUsers(s, i) ==
    IF i > Len(s) THEN <<>> ELSE << OnHoldUserOf(s[i]) >> \o MapOnHoldUsers(s, i + 1)

RECURSIVE FilterHasId(_, _)
\* Array.prototype.filter with HasId, from entry i on
FilterHasId(s, i) ==
    IF i > Len(s) THEN <<>>
    ELSE (IF HasId(s[i]) THEN << s[i] >> ELSE <<>>) \o FilterHasId(s, i + 1)

\* the value getChargePointStationQueueDetail resolves to
StationQueueDetail(data) ==
    [ maxChargingTime |-> parseInt(data.maxChargingTime),
      currTime |-> parseInt(data.currTime),
      chargingUsers |-> FilterHasId(MapChargingUsers(data.chargingUsers, 1), 1),
      onHoldUsers |-> MapOnHoldUsers(data.onHoldUsers, 1) ]

(***************************************************************************)
(* Output                                                                  *)
(***************************************************************************)
\* The texts the program builds.  A text is kept as its parts: which of the
\* three templates, the name or recipient spliced into it, and (session
\* started) the end time in epoch seconds before toLocaleTimeString.
\* `outlet`, `id` and `name` are not part of the text: they record for which
\* stored record the text was built.
StartedText(u, maxChargingTime) ==
    [ kind |-> "started", who |-> u.name, endTime |-> u.startTime + maxChargingTime,
      outlet |-> u.outlet, id |-> u.id, name |-> u.name ]

AlmostUpText(u, recipient) ==
    [ kind |-> "almostUp", who |-> recipient, endTime |-> 0,
      outlet |-> u.outlet, id |-> u.id, name |-> u.name ]

YourTurnText(u, recipient) ==
    [ kind |-> "yourTurn", who |-> recipient, endTime |-> 0,
      outlet |-> u.outlet, id |-> u.id, name |-> u.name ]

\* sendSlackMessage(text) on io = [console, posts]: console.log in debug
\* mode, else Axios.post(slackHookUrl, ...) whose promise is not awaited
sendSlackMessage(io, debug, text) ==
    IF debug
    THEN [ io EXCEPT !.console = Append(@, text) ]
    ELSE [ io EXCEPT !.posts = Append(@, text) ]

(***************************************************************************)
(* Diff & notify: the two forEach bodies of pollChargePoint                *)
(* st = [users, io, replaced]: the module-level map of the track, the      *)
(* output so far, and per outlet how many entries were stored over a       *)
(* record of another id (or over none) in this cycle.                      *)
(***************************************************************************)
\* variants of the occupant test: without the id comparison, and always true
IsNewOccupantOnlyWhenEmpty(stored, user) == stored = <<>>

IsNewOccupantAlways(stored, user) == TRUE

\* if (!chargingUsers[outlet] || chargingUsers[outlet].id !== user.id)
IsNewOccupant(stored, user) == stored = <<>> \/ stored[1].id # user.id

\* variant of the threshold test: strict
TimeAlmostUpStrict(startTime, maxChargingTime, currTime) ==
    startTime + maxChargingTime < currTime + exitWarningOffset

\* chargingUsers[outlet].startTime + maxChargingTime <= currTime + exitWarningOffset
TimeAlmostUp(startTime, maxChargingTime, currTime) ==
    startTime + maxChargingTime <= currTime + exitWarningOffset

\* slackUserIds[name] !== undefined
HasSlackUser(ids, name) == PropertyGet(ids, name) # <<>>

\* the condition of the "5 minutes of charging left" if
ShouldNotifyExit(u, ids, maxChargingTime, currTime) ==
    /\ u.status = "CHARGING"
    /\ HasSlackUser(ids, u.name)
    /\ TimeAlmostUp(u.startTime, maxChargingTime, currTime)
    /\ ~u.exitNotified

\* the condition of the "waiting on user to accept" if
ShouldNotifyWaiting(u, ids) ==
    /\ u.status = "ACCEPT_PENDING"
    /\ HasSlackUser(ids, u.name)
    /\ ~u.waitingNotified

\* variant: the flag assignment left out
MarkExitNotifiedForgotten(u) == u

\* chargingUsers[outlet].exitNotified = true
MarkExitNotified(u) == [ u EXCEPT !.exitNotified = TRUE ]

\* onHoldUsers[outlet].waitingNotified = true
MarkWaitingNotified(u) == [ u EXCEPT !.waitingNotified = TRUE ]

\* variant: one slot for the whole station, whatever the outlet of the entry
ChargingUserStepOneSlot(st, user, ids, debug, firstRun, maxChargingTime, currTime) ==
    LET outlet   == 1
        stored   == st.users[outlet]
        isNew    == IsNewOccupant(stored, user)
        changed  == stored = <<>> \/ stored[1].id # user.id
        u1       == IF isNew THEN user ELSE stored[1]
        io1      == IF isNew /\ ~firstRun
                    THEN sendSlackMessage(st.io, debug, StartedText(u1, maxChargingTime))
                    ELSE st.io
        notify   == ShouldNotifyExit(u1, ids, maxChargingTime, currTime)
        io2      == IF notify
                    THEN sendSlackMessage(io1, debug,
                             AlmostUpText(u1, PropertyGet(ids, u1.name)[1]))
                    ELSE io1
        u2       == IF notify THEN MarkExitNotified(u1) ELSE u1
    IN  [ users    |-> [ st.users EXCEPT ![outlet] = << u2 >> ],
          io       |-> io2,
          replaced |-> [ st.replaced EXCEPT ![outlet] = IF changed THEN @ + 1 ELSE @ ] ]

\* one iteration of stationQueueDetail.chargingUsers.forEach
ChargingUserStep(st, user, ids, debug, firstRun, maxChargingTime, currTime) ==
    LET outlet   == user.outlet
        stored   == st.users[outlet]
        isNew    == IsNewOccupant(stored, user)
        changed  == stored = <<>> \/ stored[1].id # user.id
        u1       == IF isNew THEN user ELSE stored[1]
        io1      == IF isNew /\ ~firstRun
                    THEN sendSlackMessage(st.io, debug, StartedText(u1, maxChargingTime))
                    ELSE st.io
        notify   == ShouldNotifyExit(u1, ids, maxChargingTime, currTime)
        io2      == IF notify
                    THEN sendSlackMessage(io1, debug,
                             AlmostUpText(u1, PropertyGet(ids, u1.name)[1]))
                    ELSE io1
        u2       == IF notify THEN MarkExitNotified(u1) ELSE u1
    IN  [ users    |-> [ st.users EXCEPT ![outlet] = << u2 >> ],
          io       |-> io2,
          replaced |-> [ st.replaced EXCEPT ![outlet] = IF changed THEN @ + 1 ELSE @ ] ]

\* variant: the status of the stored record refreshed from every snapshot
OnHoldUserStepRefreshing(st, user, ids, debug) ==
    LET outlet   == user.outlet
        stored   == st.users[outlet]
        isNew    == IsNewOccupant(stored, user)
        changed  == stored = <<>> \/ stored[1].id # user.id
        u1       == IF isNew THEN user
                    ELSE [ stored[1] EXCEPT !.status = user.status ]
        notify   == ShouldNotifyWaiting(u1, ids)
        io1      == IF notify
                    THEN sendSlackMessage(st.io, debug,
                             YourTurnText(u1, PropertyGet(ids, u1.name)[1]))
                    ELSE st.io
        u2       == IF notify THEN MarkWaitingNotified(u1) ELSE u1
    IN  [ users    |-> [ st.users EXCEPT ![outlet] = << u2 >> ],
          io       |-> io1,
          replaced |-> [ st.replaced EXCEPT ![outlet] = IF changed THEN @ + 1 ELSE @ ] ]

\* one iteration of stationQueueDetail.onHoldUsers.forEach
OnHoldUserStep(st, user, ids, debug) ==
    LET outlet   == user.outlet
        stored   == st.users[outlet]
        isNew    == IsNewOccupant(stored, user)
        changed  == stored = <<>> \/ stored[1].id # user.id
        u1       == IF isNew THEN user ELSE stored[1]
        notify   == ShouldNotifyWaiting(u1, ids)
        io1      == IF notify
                    THEN sendSlackMessage(st.io, debug,
                             YourTurnText(u1, PropertyGet(ids, u1.name)[1]))
                    ELSE st.io
        u2       == IF notify THEN MarkWaitingNotified(u1) ELSE u1
    IN  [ users    |-> [ st.users EXCEPT ![outlet] = << u2 >> ],
          io       |-> io1,
          replaced |-> [ st.replaced EXCEPT ![outlet] = IF changed THEN @ + 1 ELSE @ ] ]

\* variant: the record of an outlet the list does not report is cleared
\* before the loop
RECURSIVE ChargingUsersForEachClearing(_, _, _, _, _, _, _, _)
ChargingUsersForEachClearing(st, list, i, ids, debug, firstRun, maxChargingTime, currTime) ==
    LET reported == { list[j].outlet : j \in DOMAIN list }
        st0 == IF i = 1
               THEN [ st EXCEPT !.users =
                        [ o \in DOMAIN st.users |->
                            IF o \in reported THEN st.users[o] ELSE <<>> ] ]
               ELSE st
    IN  IF i > Len(list) THEN st0
        ELSE ChargingUsersForEachClearing(
                 ChargingUserStep(st0, list[i], ids, debug, firstRun,
                                  maxChargingTime, currTime),
                 list, i + 1, ids, debug, firstRun, maxChargingTime, currTime)

RECURSIVE ChargingUsersForEach(_, _, _, _, _, _, _, _)
ChargingUsersForEach(st, list, i, ids, debug, firstRun, maxChargingTime, currTime) ==
    IF i > Len(list) THEN st
    ELSE ChargingUsersForEach(
             ChargingUserStep(st, list[i], ids, debug, firstRun, maxChargingTime, currTime),
             list, i + 1, ids, debug, firstRun, maxChargingTime, currTime)

RECURSIVE OnHoldUsersForEach(_, _, _, _, _)
OnHoldUsersForEach(st, list, i, ids, debug) ==
    IF i > Len(list) THEN st
    ELSE OnHoldUsersForEach(OnHoldUserStep(st, list[i], ids, debug), list, i + 1, ids, debug)

(***************************************************************************)
(* State                                                                   *)
(***************************************************************************)
VARIABLES
    slackUserIds,      \* const slackUserIds = {} after the parsing block
    chargePointToken,  \* let chargePointToken (absent until the first exchange)
    lastAuth,          \* let lastAuth
    chargingUsers,     \* const chargingUsers = {1: null, 2: null}
    onHoldUsers,       \* const onHoldUsers = {1: null, 2: null}
    now,               \* the wall clock, new Date()
    timers,            \* due times of the setTimeout(pollChargePoint, ...) pending
    flights,           \* invocations of pollChargePoint suspended at an await
    startup,           \* the promise of pollChargePoint(true) and its handlers
    unhandled,         \* rejections of invocations nobody handles
    console,           \* texts logged by sendSlackMessage in the latest cycle
    posts,             \* texts posted to the webhook in the latest cycle
    detail,            \* stationQueueDetail of the latest cycle that fetched
    before,            \* chargingUsers / onHoldUsers as that cycle found them
    cycles,            \* invocations of pollChargePoint so far
    fetches,           \* invocations that got a snapshot so far
    last,              \* how the latest invocation went, and when it was called
    chargingReplaced,  \* per outlet: records stored over another id, latest cycle
    onHoldReplaced,
    chargingRun,       \* per outlet: the current run of snapshots that report
    onHoldRun          \* one and the same id for the outlet, and what it emitted

vars == << slackUserIds, chargePointToken, lastAuth, chargingUsers,
           onHoldUsers, now, timers, flights, startup, unhandled, console, posts,
           detail, before, cycles, fetches, last, chargingReplaced, onHoldReplaced,
           chargingRun, onHoldRun >>

config   == << slackUserIds >>
session  == << chargePointToken, lastAuth >>
stored   == << chargingUsers, onHoldUsers >>
output   == << console, posts >>
diffLog  == << detail, before, fetches, chargingReplaced, onHoldReplaced, chargingRun, onHoldRun >>

MsPerHour == 60 * 60 * 1000
MsPerDay  == 24 * MsPerHour

\* Date.prototype.getDay: 0 is Sunday, ..., 6 is Saturday
getDay(t) == (t \div MsPerDay) % 7

\* Date.prototype.getHours
getHours(t) == (t \div MsPerHour) % 24

\* local time of day d (0 = Sunday), hour h, minute m
At(d, h, m) == d * MsPerDay + h * MsPerHour + m * 60 * 1000

\* when the process is started: a Tuesday in working hours, a Tuesday half
\* an hour before they begin, a Saturday noon and a Monday morning
StartTimes == { At(2, 10, 0), At(2, 7, 30), At(6, 12, 0), At(1, 10, 0) }

\* how late after its due time a timer fires, and how long a request takes
TimerLateness  == { 0 }
RequestLatency == { 0 }

\* the session tokens POST /users/validate hands out
SessionTokens == { "ci1" }

NoRun == [ ids |-> {}, len |-> 0, started |-> 0, notified |-> 0 ]

NoReplaced == [ o \in Outlets |-> 0 ]

\* the state once the script has run down to its last statement, the process
\* having been started at one of the given times
InitAt(times) ==
    /\ slackUserIds = ParseSlackUserIds(slackUserIdsString(SlackUserIdsEnv))
    /\ chargePointToken = <<>>
    /\ lastAuth = <<>>
    /\ chargingUsers = [ o \in Outlets |-> <<>> ]
    /\ onHoldUsers = [ o \in Outlets |-> <<>> ]
    /\ now \in times
    /\ timers = <<>>
    /\ flights = <<>>
    /\ startup = "notCalled"
    /\ unhandled = 0
    /\ console = <<>>
    /\ posts = <<>>
    /\ detail = <<>>
    /\ before = [ charging |-> chargingUsers, onHold |-> onHoldUsers ]
    /\ cycles = 0
    /\ fetches = 0
    /\ last = [ outcome |-> "none", firstRun |-> FALSE, startup |-> FALSE, at |-> now ]
    /\ chargingReplaced = NoReplaced
    /\ onHoldReplaced = NoReplaced
    /\ chargingRun = [ o \in Outlets |-> NoRun ]
    /\ onHoldRun = [ o \in Outlets |-> NoRun ]

Init == InitAt(StartTimes)

(***************************************************************************)
(* pollChargePoint up to its first await                                   *)
(***************************************************************************)
\* dateNow.getDay() === sundayDayOfWeek || dateNow.getDay() === saturdayDayOfWeek
IsWeekendGate(t) == getDay(t) = sundayDayOfWeek \/ getDay(t) = saturdayDayOfWeek

\* dateNow.getHours() < workingStarTime || dateNow.getHours() > workingStopTime
IsAfterHoursGate(t) == getHours(t) < workingStarTime \/ getHours(t) > workingStopTime

\* variant: the token is kept until it is older than authDelay
NeedsAuthStrict(token, auth, t) == token = <<>> \/ auth[1] + authDelay < t

\* variant: the token is never exchanged again once there is one
NeedsAuthOnlyWhenMissing(token, auth, t) == token = <<>>

\* !chargePointToken || new Date(lastAuth.getTime() + authDelay) <= new Date()
NeedsAuth(token, auth, t) == token = <<>> \/ auth[1] + authDelay <= t

\* setTimeout(pollChargePoint, delay) at time t
SetTimeout(tm, t, delay) == Append(tm, t + delay)

\* variant: the next invocation armed on entry, before the awaits
TimersAfterHeadEager(tm, t) ==
    IF IsWeekendGate(t) THEN SetTimeout(tm, t, weekendSleepTime)
    ELSE IF IsAfterHoursGate(t) THEN SetTimeout(tm, t, afterHoursSleepTime)
    ELSE SetTimeout(tm, t, pollingDelay)

\* variant: outside the working hours the invocation returns without arming
\* a timer
TimersAfterHeadNoSleep(tm, t) ==
    IF IsWeekendGate(t) THEN SetTimeout(tm, t, weekendSleepTime)
    ELSE tm

\* the timers after the synchronous head of an invocation at time t
TimersAfterHead(tm, t) ==
    IF IsWeekendGate(t) THEN SetTimeout(tm, t, weekendSleepTime)
    ELSE IF IsAfterHoursGate(t) THEN SetTimeout(tm, t, afterHoursSleepTime)
    ELSE tm

\* the invocations in flight after the synchronous head of an invocation
\* (token: the argument of the getChargePointStationQueueDetail call, once made)
FlightsAfterHead(fl, t, firstRun, isStartup) ==
    IF IsWeekendGate(t) \/ IsAfterHoursGate(t) THEN fl
    ELSE Append(fl, [ firstRun |-> firstRun, startup |-> isStartup,
                      pc |-> IF NeedsAuth(chargePointToken, lastAuth, t)
                             THEN "auth" ELSE "fetch",
                      token |-> IF NeedsAuth(chargePointToken, lastAuth, t)
                                THEN <<>> ELSE chargePointToken ])

\* pollChargePoint(firstRun) called at time t, run to its first await or return
\* (tm: the timers pending when it is called)
PollHead(t, tm, firstRun, isStartup) ==
    /\ cycles < MaxCycles
    /\ cycles' = cycles + 1
    /\ now' = t
    /\ timers' = TimersAfterHead(tm, t)
    /\ flights' = FlightsAfterHead(flights, t, firstRun, isStartup)
    /\ console' = <<>>
    /\ posts' = <<>>
    /\ chargingReplaced' = NoReplaced
    /\ onHoldReplaced' = NoReplaced
    /\ last' = [ outcome  |-> IF IsWeekendGate(t) \/ IsAfterHoursGate(t)
                              THEN "gated" ELSE "awaiting",
                 firstRun |-> firstRun, startup |-> isStartup, at |-> t ]
    /\ startup' = IF isStartup
                  THEN (IF IsWeekendGate(t) \/ IsAfterHoursGate(t)
                        THEN "resolved" ELSE "pending")
                  ELSE startup
    /\ UNCHANGED << config, session, stored, unhandled, detail, before, fetches,
                    chargingRun, onHoldRun >>

\* the last statement of the script: pollChargePoint(true).then(...).catch(...)
Startup ==
    /\ startup = "notCalled"
    /\ PollHead(now, timers, TRUE, TRUE)

RemoveAt(s, i) == SubSeq(s, 1, i - 1) \o SubSeq(s, i + 1, Len(s))

\* a pending timer fires and calls pollChargePoint(): firstRun is undefined
TimerFire(i, late) ==
    /\ i \in DOMAIN timers
    /\ LET t == (IF timers[i] > now THEN timers[i] ELSE now) + late
       IN  PollHead(t, RemoveAt(timers, i), FALSE, FALSE)

(***************************************************************************)
(* The awaits of pollChargePoint                                           *)
(***************************************************************************)
\* what happens to the promise of an invocation that throws at an await: the
\* start-up call has a catch handler, a call made by a timer has none
StartupAfterThrow(f) == IF f.startup THEN "rejected" ELSE startup

UnhandledAfterThrow(f) == IF f.startup THEN unhandled ELSE unhandled + 1

\* variant: the next invocation armed although the await threw
TimersAfterThrowRetry(tm, t) == SetTimeout(tm, t, pollingDelay)

\* the timers after an invocation threw at an await: the function is left
\* at the await, so the setTimeout of its last line is not reached
TimersAfterThrow(tm, t) == tm

\* generateChargePointToken resolves: the token and the time are stored and
\* getChargePointStationQueueDetail is called
AuthResolve(i, token, latency) ==
    /\ i \in DOMAIN flights
    /\ flights[i].pc = "auth"
    /\ now' = now + latency
    /\ chargePointToken' = << token >>
    /\ lastAuth' = << now' >>
    /\ flights' = [ flights EXCEPT ![i].pc = "fetch", ![i].token = chargePointToken' ]
    /\ UNCHANGED << config, stored, timers, startup, unhandled, output, diffLog,
                    cycles, last >>

\* variant: lastAuth stamped although the exchange failed
AuthRejectStamping(i, latency) ==
    /\ i \in DOMAIN flights
    /\ flights[i].pc = "auth"
    /\ now' = now + latency
    /\ flights' = RemoveAt(flights, i)
    /\ timers' = TimersAfterThrow(timers, now')
    /\ startup' = StartupAfterThrow(flights[i])
    /\ unhandled' = UnhandledAfterThrow(flights[i])
    /\ last' = [ last EXCEPT !.outcome = "authFailed" ]
    /\ lastAuth' = << now' >>
    /\ UNCHANGED << config, chargePointToken, stored, output, diffLog, cycles >>

\* generateChargePointToken rejects (transport error, non-2xx, or a body
\* without sessionStorage)
AuthReject(i, latency) ==
    /\ i \in DOMAIN flights
    /\ flights[i].pc = "auth"
    /\ now' = now + latency
    /\ flights' = RemoveAt(flights, i)
    /\ timers' = TimersAfterThrow(timers, now')
    /\ startup' = StartupAfterThrow(flights[i])
    /\ unhandled' = UnhandledAfterThrow(flights[i])
    /\ last' = [ last EXCEPT !.outcome = "authFailed" ]
    /\ UNCHANGED << config, session, stored, output, diffLog, cycles >>

\* getChargePointStationQueueDetail rejects
FetchReject(i, latency) ==
    /\ i \in DOMAIN flights
    /\ flights[i].pc = "fetch"
    /\ now' = now + latency
    /\ flights' = RemoveAt(flights, i)
    /\ timers' = TimersAfterThrow(timers, now')
    /\ startup' = StartupAfterThrow(flights[i])
    /\ unhandled' = UnhandledAfterThrow(flights[i])
    /\ last' = [ last EXCEPT !.outcome = "fetchFailed" ]
    /\ UNCHANGED << config, session, stored, output, diffLog, cycles >>

\* the ids a snapshot list reports for an outlet
IdsFor(list, o) == { list[i].id : i \in { j \in DOMAIN list : list[j].outlet = o } }

\* how many texts of a kind were built for an outlet
CountOf(texts, kind, o) ==
    Cardinality({ i \in DOMAIN texts : texts[i].kind = kind /\ texts[i].outlet = o })

\* the run of an outlet after a snapshot: it goes on when the snapshot reports
\* for the outlet exactly the id of the run, starts anew when it reports
\* exactly one other id, and ends otherwise; kinds: the kinds of text of the
\* track ("session started" exists on the charging track only)
RunAfter(run, list, texts, o, kinds) ==
    LET ids == IdsFor(list, o)
        notifiedKind == kinds[2]
        s   == CountOf(texts, kinds[1], o)
        n   == CountOf(texts, notifiedKind, o)
    IN  IF Cardinality(ids) # 1 THEN NoRun
        ELSE IF run.ids = ids
        THEN [ ids |-> ids, len |-> run.len + 1,
               started |-> run.started + s, notified |-> run.notified + n ]
        ELSE [ ids |-> ids, len |-> 1, started |-> s, notified |-> n ]

\* the rest of pollChargePoint once the snapshot is there: both forEach
\* loops, then setTimeout(pollChargePoint, pollingDelay)
FetchResolve(i, data, latency) ==
    /\ i \in DOMAIN flights
    /\ flights[i].pc = "fetch"
    /\ now' = now + latency
    /\ LET stationQueueDetail == StationQueueDetail(data)
           maxChargingTime == stationQueueDetail.maxChargingTime
           currTime == stationQueueDetail.currTime
           debug == DEBUG_MODE
           c  == ChargingUsersForEach(
                     [ users |-> chargingUsers,
                       io |-> [ console |-> console, posts |-> posts ],
                       replaced |-> chargingReplaced ],
                     stationQueueDetail.chargingUsers, 1, slackUserIds, debug,
                     flights[i].firstRun, maxChargingTime, currTime)
           h  == OnHoldUsersForEach(
                     [ users |-> onHoldUsers, io |-> c.io, replaced |-> onHoldReplaced ],
                     stationQueueDetail.onHoldUsers, 1, slackUserIds, debug)
           texts == h.io.console \o h.io.posts
       IN  /\ chargingUsers' = c.users
           /\ onHoldUsers' = h.users
           /\ console' = h.io.console
           /\ posts' = h.io.posts
           /\ chargingReplaced' = c.replaced
           /\ onHoldReplaced' = h.replaced
           /\ detail' = << stationQueueDetail >>
           /\ before' = [ charging |-> chargingUsers, onHold |-> onHoldUsers ]
           /\ chargingRun' = [ o \in Outlets |->
                  RunAfter(chargingRun[o], stationQueueDetail.chargingUsers,
                           texts, o, << "started", "almostUp" >>) ]
           /\ onHoldRun' = [ o \in Outlets |->
                  RunAfter(onHoldRun[o], stationQueueDetail.onHoldUsers,
                           texts, o, << "none", "yourTurn" >>) ]
    /\ fetches' = fetches + 1
    /\ timers' = SetTimeout(timers, now', pollingDelay)
    /\ flights' = RemoveAt(flights, i)
    /\ startup' = IF flights[i].startup THEN "resolved" ELSE startup
    /\ last' = [ last EXCEPT !.outcome = "polled" ]
    /\ UNCHANGED << config, session, unhandled, cycles >>

Next ==
    \/ Startup
    \/ \E i \in DOMAIN timers, late \in TimerLateness : TimerFire(i, late)
    \/ \E i \in DOMAIN flights, token \in SessionTokens, latency \in RequestLatency :
          AuthResolve(i, token, latency)
    \/ \E i \in DOMAIN flights, latency \in RequestLatency : AuthReject(i, latency)
    \/ \E i \in DOMAIN flights, data \in RawMessages, latency \in RequestLatency :
          FetchResolve(i, data, latency)
    \/ \E i \in DOMAIN flights, latency \in RequestLatency : FetchReject(i, latency)

Spec == Init /\ [][Next]_vars

(***************************************************************************)
(* The same program watched over its clock: timers that fire late, so that *)
(* the age of the token reaches authDelay, starts on every kind of day,    *)
(* and two session tokens; few snapshots                                   *)
(***************************************************************************)
\* a Tuesday in working hours, a Tuesday one minute before 19:00, a Tuesday
\* before 8:00, a Sunday noon, a Monday morning and a Saturday noon
ClockStartTimes ==
    { At(2, 10, 0), At(2, 18, 59), At(2, 7, 30), At(0, 12, 0), At(1, 10, 0),
      At(6, 12, 0) }

\* a timer armed with pollingDelay at the exchange then fires when the token
\* is one minute old, one millisecond short of authDelay, exactly authDelay
\* old, or older
ClockLateness ==
    { 0, authDelay - pollingDelay - 1, authDelay - pollingDelay, authDelay }

ClockTokens == { "ci1", "ci2" }

ClockMessages ==
    { RawMessage(AtThreshold, <<>>, <<>>),
      RawMessage(AtThreshold, << RawCharging("s1", "CHARGING", Plugged1000, 1) >>, <<>>),
      RawMessage(AtThreshold, <<>>, << RawOnHold("s1", "ACCEPT_PENDING", 1) >>) }

InitClock == InitAt(ClockStartTimes)

NextClock ==
    \/ Startup
    \/ \E i \in DOMAIN timers, late \in ClockLateness : TimerFire(i, late)
    \/ \E i \in DOMAIN flights, token \in ClockTokens, latency \in RequestLatency :
          AuthResolve(i, token, latency)
    \/ \E i \in DOMAIN flights, latency \in RequestLatency : AuthReject(i, latency)
    \/ \E i \in DOMAIN flights, data \in ClockMessages, latency \in RequestLatency :
          FetchResolve(i, data, latency)
    \/ \E i \in DOMAIN flights, latency \in RequestLatency : FetchReject(i, latency)

SpecClock == InitClock /\ [][NextClock]_vars

(***************************************************************************)
(* The same program fed snapshots that report both outlets at once, on the *)
(* charging track, on the on-hold track and on both                        *)
(***************************************************************************)
OrderStartTimes == { At(2, 10, 0), At(2, 7, 30) }

OrderChargingPairs ==
    { << RawCharging(a, "CHARGING", Plugged1000, 1),
         RawCharging(b, "CHARGING", Plugged1000, 2) >> :
        a \in { "s1", "s2" }, b \in { "s1", "s2" } }
    \cup { << RawCharging("s3", "CHARGING", Plugged1000, 2),
              RawCharging("s1", "CHARGING", Plugged1001, 1) >> }

OrderOnHoldPairs ==
    { << RawOnHold("s1", "ACCEPT_PENDING", 1), RawOnHold("s2", "ACCEPT_PENDING", 2) >>,
      << RawOnHold("s2", "ACCEPT_PENDING", 2), RawOnHold("s3", "WAITING", 1) >> }

OrderMessages ==
    { RawMessage(AtThreshold, c, <<>>) : c \in OrderChargingPairs }
    \cup { RawMessage(AtThreshold, <<>>, h) : h \in OrderOnHoldPairs }
    \cup { RawMessage(AtThreshold,
                      << RawCharging("s1", "CHARGING", Plugged1000, 1),
                         RawCharging("s2", "CHARGING", Plugged1000, 2) >>,
                      << RawOnHold("s2", "ACCEPT_PENDING", 1),
                         RawOnHold("s1", "ACCEPT_PENDING", 2) >>),
           RawMessage(AtThreshold, <<>>, <<>>) }

InitOrder == InitAt(OrderStartTimes)

NextOrder ==
    \/ Startup
    \/ \E i \in DOMAIN timers, late \in TimerLateness : TimerFire(i, late)
    \/ \E i \in DOMAIN flights, token \in SessionTokens, latency \in RequestLatency :
          AuthResolve(i, token, latency)
    \/ \E i \in DOMAIN flights, latency \in RequestLatency : AuthReject(i, latency)
    \/ \E i \in DOMAIN flights, data \in OrderMessages, latency \in RequestLatency :
          FetchResolve(i, data, latency)
    \/ \E i \in DOMAIN flights, latency \in RequestLatency : FetchReject(i, latency)

SpecOrder == InitOrder /\ [][NextOrder]_vars

(***************************************************************************)
(* Vocabulary of the properties                                            *)
(***************************************************************************)
\* the texts handed to sendSlackMessage in the latest cycle
Emitted == console \o posts

Polled == last.outcome = "polled"

Failed == last.outcome \in { "authFailed", "fetchFailed" }

\* the latest snapshot reports exactly one entry for the outlet
ObservedOnce(list, o) == Cardinality({ i \in DOMAIN list : list[i].outlet = o }) = 1

\* that entry
ObservedEntry(list, o) == list[CHOOSE i \in DOMAIN list : list[i].outlet = o]

ExitFlag(rec) == rec # <<>> /\ rec[1].exitNotified

WaitingFlag(rec) == rec # <<>> /\ rec[1].waitingNotified

\* the name was given a recipient by the configured mapping
Mapped(name) == name \in DOMAIN slackUserIds

(***************************************************************************)
(* C1  Idempotence.  Over any run of consecutive snapshots that report one *)
(* and the same occupant id for an outlet, "session started" and "almost   *)
(* up" (charging track) and "your turn" (on-hold track) are each emitted   *)
(* at most once.                                                           *)
(***************************************************************************)
C1_Idempotence ==
    \A o \in Outlets :
        /\ chargingRun[o].started <= 1
        /\ chargingRun[o].notified <= 1
        /\ onHoldRun[o].started = 0
        /\ onHoldRun[o].notified <= 1

\* a run of at least two snapshots in which "session started" and "almost up"
\* were both emitted, and whose latest snapshot still meets the threshold
\* without anything being emitted again
C1_Witness ==
    /\ Polled
    /\ \E o \in Outlets :
        /\ chargingRun[o].len >= 2
        /\ chargingRun[o].started = 1
        /\ chargingRun[o].notified = 1
        /\ chargingUsers[o][1].startTime + detail[1].maxChargingTime
               <= detail[1].currTime + exitWarningOffset
        /\ CountOf(Emitted, "almostUp", o) = 0
        /\ CountOf(Emitted, "started", o) = 0

(***************************************************************************)
(* C2  Flag reset.  When a poll observes for an outlet one occupant whose  *)
(* id differs from the stored one (or nothing is stored), the stored       *)
(* record becomes the observation, with its flag false unless the new      *)
(* occupant's own notification was emitted in that same poll.              *)
(***************************************************************************)
C2_FlagReset ==
    Polled =>
      \A o \in Outlets :
        /\ LET list == detail[1].chargingUsers
               e    == ObservedEntry(list, o)
               old  == before.charging[o]
           IN  (ObservedOnce(list, o) /\ (old = <<>> \/ old[1].id # e.id)) =>
                   /\ e.exitNotified = FALSE
                   /\ chargingUsers[o] =
                        << [ e EXCEPT !.exitNotified =
                               \E i \in DOMAIN Emitted :
                                   /\ Emitted[i].kind = "almostUp"
                                   /\ Emitted[i].outlet = o
                                   /\ Emitted[i].id = e.id ] >>
        /\ LET list == detail[1].onHoldUsers
               e    == ObservedEntry(list, o)
               old  == before.onHold[o]
           IN  (ObservedOnce(list, o) /\ (old = <<>> \/ old[1].id # e.id)) =>
                   /\ e.waitingNotified = FALSE
                   /\ onHoldUsers[o] =
                        << [ e EXCEPT !.waitingNotified =
                               \E i \in DOMAIN Emitted :
                                   /\ Emitted[i].kind = "yourTurn"
                                   /\ Emitted[i].outlet = o
                                   /\ Emitted[i].id = e.id ] >>

\* the previous occupant of the outlet had been notified, another one took
\* the outlet and got its own "almost up"
C2_Witness ==
    /\ Polled
    /\ \E o \in Outlets :
        /\ ExitFlag(before.charging[o])
        /\ ObservedOnce(detail[1].chargingUsers, o)
        /\ ObservedEntry(detail[1].chargingUsers, o).id # before.charging[o][1].id
        /\ ExitFlag(chargingUsers[o])
        /\ chargingUsers[o][1].id # before.charging[o][1].id

(***************************************************************************)
(* C3  Flag monotonicity.  A flag that is true goes to false only in a     *)
(* step that stores, for that outlet and track, a record over one of a     *)
(* different id; no other step clears it, and a stored record never goes   *)
(* back to none.                                                           *)
(***************************************************************************)
C3_FlagMonotone ==
    [][ \A o \in Outlets :
          /\ (ExitFlag(chargingUsers[o]) /\ ~ExitFlag(chargingUsers'[o]))
                => (fetches' = fetches + 1 /\ chargingReplaced'[o] >= 1
                    /\ chargingUsers'[o] # <<>>)
          /\ (WaitingFlag(onHoldUsers[o]) /\ ~WaitingFlag(onHoldUsers'[o]))
                => (fetches' = fetches + 1 /\ onHoldReplaced'[o] >= 1
                    /\ onHoldUsers'[o] # <<>>) ]_vars

\* an on-hold occupant notified in an earlier snapshot is observed again and
\* its flag is still true
C3_Witness ==
    /\ Polled
    /\ \E o \in Outlets :
        /\ onHoldRun[o].len >= 2
        /\ WaitingFlag(before.onHold[o])
        /\ WaitingFlag(onHoldUsers[o])
        /\ onHoldUsers[o][1].id = before.onHold[o][1].id
        /\ onHoldReplaced[o] = 0

(***************************************************************************)
(* C4  First-run suppression.  The first cycle that fetches a snapshot     *)
(* emits no "session started", whenever the process was started and        *)
(* however many gated cycles came before it.                               *)
(***************************************************************************)
C4_FirstPollSuppressed ==
    (Polled /\ fetches = 1) =>
        \A i \in DOMAIN Emitted : Emitted[i].kind # "started"

(***************************************************************************)
(* C5  Threshold boundary.  For a stored charging occupant with status     *)
(* "CHARGING", a mapped name and exitNotified false, a poll that observes  *)
(* that occupant emits "almost up" for the outlet if and only if           *)
(* startTime + maxChargingTime <= currTime + warningOffset, with           *)
(* maxChargingTime and currTime those of that poll's snapshot.             *)
(***************************************************************************)
C5_Applies(o) ==
    /\ Polled
    /\ before.charging[o] # <<>>
    /\ before.charging[o][1].status = "CHARGING"
    /\ Mapped(before.charging[o][1].name)
    /\ ~before.charging[o][1].exitNotified
    /\ ObservedOnce(detail[1].chargingUsers, o)
    /\ ObservedEntry(detail[1].chargingUsers, o).id = before.charging[o][1].id

C6_UnknownRecipientSuppressed ==
    /\ \A i \in DOMAIN Emitted :
          Emitted[i].kind \in { "almostUp", "yourTurn" } => Mapped(Emitted[i].name)
    /\ \A o \in Outlets :
          /\ ExitFlag(chargingUsers[o]) => Mapped(chargingUsers[o][1].name)
          /\ WaitingFlag(onHoldUsers[o]) => Mapped(onHoldUsers[o][1].name)

(***************************************************************************)
(* C7  Steady-state fault tolerance.  After a cycle other than the first   *)
(* invocation fails in the session refresh or the fetch, the next cycle is *)
(* scheduled on the regular timer.                                         *)
(***************************************************************************)
C7_NextCycleScheduled ==
    (Failed /\ ~last.startup) => Len(timers) = 1

(***************************************************************************)
(* C8  First-invocation failure.  The session refresh or the fetch failing *)
(* in the first invocation is caught by the start-up handler; no further   *)
(* cycle is scheduled and the process never polls again.                   *)
(***************************************************************************)
C8_FirstInvocationFailure ==
    /\ (Failed /\ last.startup) <=> startup = "rejected"
    /\ startup = "rejected" =>
          /\ unhandled = 0
          /\ cycles = 1
          /\ fetches = 0
          /\ timers = <<>>
          /\ flights = <<>>
          /\ ~ENABLED Next

\* the fetch of the first invocation failed after its session refresh worked
C8_Witness ==
    /\ startup = "rejected"
    /\ last.outcome = "fetchFailed"
    /\ chargePointToken # <<>>

(***************************************************************************)
(* C9  Single flight.  At most one invocation is in flight or pending at   *)
(* any time, and a next invocation is armed only by a step that leaves no  *)
(* invocation in flight.                                                   *)
(***************************************************************************)
C9_SingleFlight ==
    [][ /\ Len(flights') + Len(timers') <= 1
        /\ Len(timers') > Len(timers) => flights' = <<>>
        /\ Len(flights') <= 1 ]_vars

\* a cycle started by a timer is in flight, and nothing else is pending
C9_Witness ==
    /\ cycles >= 2
    /\ Len(flights) = 1
    /\ ~flights[1].startup
    /\ flights[1].pc = "fetch"
    /\ timers = <<>>

(***************************************************************************)
(* C10  Delivery is attempted once.  Every notification whose flag was set *)
(* in a cycle was dispatched to the webhook exactly once in that cycle.    *)
(***************************************************************************)
C10_DispatchedOnce ==
    Polled =>
      \A o \in Outlets :
        /\ (ExitFlag(chargingUsers[o]) /\ ~ExitFlag(before.charging[o]))
              => CountOf(posts, "almostUp", o) = 1
        /\ (WaitingFlag(onHoldUsers[o]) /\ ~WaitingFlag(before.onHold[o]))
              => CountOf(posts, "yourTurn", o) = 1

(***************************************************************************)
(* Steps of a cycle, as the properties below name them                     *)
(***************************************************************************)
\* an invocation passes both gates and reaches the refresh check
ReachesRefreshCheck == cycles' = cycles + 1 /\ last'.outcome = "awaiting"

\* that invocation starts a credential exchange
StartsExchange == flights'[Len(flights')].pc = "auth"

\* a credential exchange succeeds
ExchangeSucceeds ==
    \E i \in DOMAIN flights :
        i \in DOMAIN flights' /\ flights[i].pc = "auth" /\ flights'[i].pc = "fetch"

\* the age of the held token at the refresh check of the step
TokenAgeAtCheck == last'.at - lastAuth[1]

C12_WeekendGating ==
    cycles > 0 =>
        /\ getDay(last.at) \in { 0, 6 } =>
              /\ last.outcome = "gated"
              /\ timers = << last.at + weekendSleepTime >>
              /\ flights = <<>>
              /\ Emitted = <<>>
        /\ ( /\ getDay(last.at) \in 1 .. 5
             /\ getHours(last.at) >= workingStarTime
             /\ getHours(last.at) < workingStopTime ) =>
              last.outcome # "gated"

\* the credential exchange of the cycle fails
ExchangeFails == last.outcome = "awaiting" /\ last'.outcome = "authFailed"

\* the snapshot fetch of the cycle fails
FetchFails == last.outcome = "awaiting" /\ last'.outcome = "fetchFailed"

(***************************************************************************)
(* C13  A failing cycle leaves the diff state untouched.  When the         *)
(* exchange fails, token and lastAuth stay as they were and no fetch is    *)
(* issued; from its invocation to the failure of its exchange or of its    *)
(* fetch a cycle emits no text and leaves every stored record, flags       *)
(* included, as it was.                                                    *)
(***************************************************************************)
C13_FailureLeavesState ==
    [][ /\ ExchangeFails =>
              /\ session' = session
              /\ fetches' = fetches
              /\ \A i \in DOMAIN flights' : flights'[i].pc # "fetch"
        /\ last'.outcome \in { "awaiting", "authFailed", "fetchFailed" } =>
              /\ stored' = stored
              /\ Emitted' = <<>> ]_vars

\* an exchange failed while a token was held and a flagged record was stored
C13_Witness ==
    /\ last.outcome = "authFailed"
    /\ chargePointToken # <<>>
    /\ ExitFlag(chargingUsers[1])

\* the positions in the texts of the latest cycle of a kind of text about an
\* occupant of an outlet
PositionsOf(kind, o, id) ==
    { i \in DOMAIN Emitted :
        Emitted[i].kind = kind /\ Emitted[i].outlet = o /\ Emitted[i].id = id }

(***************************************************************************)
(* C14  Session-started trigger.  In a poll that is not called with        *)
(* firstRun, the "session started" texts about an outlet are as many as    *)
(* the replacements of the outlet's stored charging occupant in that poll  *)
(* (none when the occupant stays), each about the occupant stored; the     *)
(* "almost up" check of the same step reads the record just stored, so a   *)
(* poll can emit both about one occupant, "session started" first.         *)
(***************************************************************************)
C14_StartedOnReplacement ==
    (Polled /\ ~last.firstRun) =>
        \A o \in Outlets :
            /\ CountOf(Emitted, "started", o) = chargingReplaced[o]
            /\ ( /\ ObservedOnce(detail[1].chargingUsers, o)
                 /\ before.charging[o] # <<>>
                 /\ before.charging[o][1].id =
                        ObservedEntry(detail[1].chargingUsers, o).id ) =>
                   CountOf(Emitted, "started", o) = 0
            /\ \A i \in DOMAIN Emitted :
                   (Emitted[i].kind = "started" /\ Emitted[i].outlet = o) =>
                       Emitted[i].id \in IdsFor(detail[1].chargingUsers, o)
            /\ \A id \in IdsFor(detail[1].chargingUsers, o) :
                   \A i \in PositionsOf("started", o, id),
                      j \in PositionsOf("almostUp", o, id) : i < j

\* a poll not called with firstRun stored a new occupant and emitted
\* "session started" and then "almost up" about it
C14_Witness ==
    /\ Polled
    /\ ~last.firstRun
    /\ \E o \in Outlets :
          /\ chargingReplaced[o] = 1
          /\ chargingUsers[o] # before.charging[o]
          /\ \E i, j \in DOMAIN Emitted :
                /\ i < j
                /\ Emitted[i].kind = "started" /\ Emitted[i].outlet = o
                /\ Emitted[j].kind = "almostUp" /\ Emitted[j].outlet = o
                /\ Emitted[i].id = chargingUsers[o][1].id
                /\ Emitted[j].id = chargingUsers[o][1].id

Reverse(list) == [ i \in 1 .. Len(list) |-> list[Len(list) + 1 - i] ]

Range(list) == { list[i] : i \in DOMAIN list }

\* the entries of a list refer to pairwise distinct outlets
DistinctOutlets(list) ==
    \A i, j \in DOMAIN list : i # j => list[i].outlet # list[j].outlet

NoTexts == [ console |-> <<>>, posts |-> <<>> ]

\* the charging loop of the latest poll run again, over the given list, from
\* the records that poll found
ChargingAgain(list) ==
    ChargingUsersForEach(
        [ users |-> before.charging, io |-> NoTexts, replaced |-> NoReplaced ],
        list, 1, slackUserIds, DEBUG_MODE, last.firstRun,
        detail[1].maxChargingTime, detail[1].currTime)

\* the on-hold loop of the latest poll run again
OnHoldAgain(list) ==
    OnHoldUsersForEach(
        [ users |-> before.onHold, io |-> NoTexts, replaced |-> NoReplaced ],
        list, 1, slackUserIds, DEBUG_MODE)

TextsOf(st) == Range(st.io.console \o st.io.posts)

(***************************************************************************)
(* C15  Cross-outlet independence.  When the entries of each list of the   *)
(* snapshot refer to pairwise distinct outlets, processing each list in    *)
(* the opposite order gives the same stored records and the same set of    *)
(* texts; processing one entry leaves the record of every other outlet as  *)
(* it was; the records of a track are what its own list alone makes of     *)
(* them, whatever the list of the other track.                             *)
(***************************************************************************)
C15_OrderIndependence ==
    LET cl == detail[1].chargingUsers
        hl == detail[1].onHoldUsers
    IN  (Polled /\ DistinctOutlets(cl) /\ DistinctOutlets(hl)) =>
            /\ ChargingAgain(Reverse(cl)).users = chargingUsers
            /\ OnHoldAgain(Reverse(hl)).users = onHoldUsers
            /\ TextsOf(ChargingAgain(Reverse(cl))) \cup TextsOf(OnHoldAgain(Reverse(hl)))
                  = Range(Emitted)
            /\ \A i \in DOMAIN cl : \A o \in Outlets \ { cl[i].outlet } :
                  ChargingAgain(<< cl[i] >>).users[o] = before.charging[o]
            /\ \A i \in DOMAIN hl : \A o \in Outlets \ { hl[i].outlet } :
                  OnHoldAgain(<< hl[i] >>).users[o] = before.onHold[o]
            /\ \A o \in Outlets :
                  /\ IdsFor(cl, o) = {} => chargingUsers[o] = before.charging[o]
                  /\ IdsFor(hl, o) = {} => onHoldUsers[o] = before.onHold[o]

\* a poll took a snapshot with both outlets on both tracks, replaced a record
\* on each outlet of the charging track and emitted texts on both tracks
C15_Witness ==
    /\ Polled
    /\ Len(detail[1].chargingUsers) = 2
    /\ Len(detail[1].onHoldUsers) = 2
    /\ DistinctOutlets(detail[1].chargingUsers)
    /\ DistinctOutlets(detail[1].onHoldUsers)
    /\ \A o \in Outlets : chargingReplaced[o] = 1 /\ before.charging[o] # <<>>
    /\ \E i, j \in DOMAIN Emitted :
          Emitted[i].kind = "started" /\ Emitted[j].kind = "yourTurn"

\* the texts of the latest cycle about an outlet, of the given kinds
TextsAbout(o, kinds) ==
    { i \in DOMAIN Emitted : Emitted[i].outlet = o /\ Emitted[i].kind \in kinds }

ChargingKinds == { "started", "almostUp" }

OnHoldKinds == { "yourTurn" }

\* the snapshot before the latest did not report the id the latest reports
\* alone for the outlet, and that id is the one the poll found stored
ChargingSeenAgain(o) ==
    /\ ObservedOnce(detail[1].chargingUsers, o)
    /\ chargingRun[o].len = 1
    /\ before.charging[o] # <<>>
    /\ before.charging[o][1].id = ObservedEntry(detail[1].chargingUsers, o).id

OnHoldSeenAgain(o) ==
    /\ ObservedOnce(detail[1].onHoldUsers, o)
    /\ onHoldRun[o].len = 1
    /\ before.onHold[o] # <<>>
    /\ before.onHold[o][1].id = ObservedEntry(detail[1].onHoldUsers, o).id

(***************************************************************************)
(* C16  No vacancy event.  A poll whose snapshot has no entry for an       *)
(* outlet in a track leaves the outlet's record of that track, flag        *)
(* included, as it was and emits no text of that track about the outlet.   *)
(* When the stored id is reported again after snapshots without it, no     *)
(* "session started" is emitted and a flag that was set stays set, with no *)
(* second "almost up" or "your turn".                                      *)
(***************************************************************************)
C16_NoVacancyEvent ==
    Polled =>
        \A o \in Outlets :
            /\ IdsFor(detail[1].chargingUsers, o) = {} =>
                  /\ chargingUsers[o] = before.charging[o]
                  /\ TextsAbout(o, ChargingKinds) = {}
            /\ IdsFor(detail[1].onHoldUsers, o) = {} =>
                  /\ onHoldUsers[o] = before.onHold[o]
                  /\ TextsAbout(o, OnHoldKinds) = {}
            /\ ChargingSeenAgain(o) =>
                  /\ TextsAbout(o, { "started" }) = {}
                  /\ ExitFlag(before.charging[o]) =>
                        (ExitFlag(chargingUsers[o]) /\ TextsAbout(o, ChargingKinds) = {})
            /\ (OnHoldSeenAgain(o) /\ WaitingFlag(before.onHold[o])) =>
                  (WaitingFlag(onHoldUsers[o]) /\ TextsAbout(o, OnHoldKinds) = {})

\* an occupant notified that the time is almost up is reported again after a
\* snapshot without an entry for the outlet (no snapshot of the model that
\* reports s1 with another id for the outlet leaves s1 stored)
C16_Witness ==
    /\ Polled
    /\ fetches = 3
    /\ ~last.firstRun
    /\ \E o \in Outlets :
          /\ ChargingSeenAgain(o)
          /\ before.charging[o][1].id = << "s1" >>
          /\ ExitFlag(before.charging[o])
          /\ ExitFlag(chargingUsers[o])
          /\ TextsAbout(o, ChargingKinds) = {}
          /\ ShouldNotifyExit([ chargingUsers[o][1] EXCEPT !.exitNotified = FALSE ],
                              slackUserIds, detail[1].maxChargingTime,
                              detail[1].currTime)

\* every entry the latest snapshot reports for the outlet has the id of the
\* record the poll found stored, and there is at least one
ChargingIdStays(o) ==
    /\ before.charging[o] # <<>>
    /\ IdsFor(detail[1].chargingUsers, o) = { before.charging[o][1].id }

OnHoldIdStays(o) ==
    /\ before.onHold[o] # <<>>
    /\ IdsFor(detail[1].onHoldUsers, o) = { before.onHold[o][1].id }

(***************************************************************************)
(* C17  Stored record frozen while the id is unchanged.  A poll that       *)
(* reports for an outlet the id already stored leaves name, status,        *)
(* startTime and outlet of the record as first stored; only the flag may   *)
(* change, from false to true.  So an on-hold occupant stored with a       *)
(* status other than "ACCEPT_PENDING" gets no "your turn" while its id     *)
(* stays stored, whatever status later snapshots report, and a charging    *)
(* occupant stored with a status other than "CHARGING" gets no "almost     *)
(* up".                                                                    *)
(***************************************************************************)
C17_StoredRecordFrozen ==
    Polled =>
        \A o \in Outlets :
            /\ ChargingIdStays(o) =>
                  /\ chargingUsers[o] # <<>>
                  /\ [ chargingUsers[o][1] EXCEPT !.exitNotified = FALSE ]
                        = [ before.charging[o][1] EXCEPT !.exitNotified = FALSE ]
                  /\ ExitFlag(before.charging[o]) => ExitFlag(chargingUsers[o])
                  /\ before.charging[o][1].status # "CHARGING" =>
                        /\ ~ExitFlag(chargingUsers[o])
                        /\ TextsAbout(o, { "almostUp" }) = {}
            /\ OnHoldIdStays(o) =>
                  /\ onHoldUsers[o] # <<>>
                  /\ [ onHoldUsers[o][1] EXCEPT !.waitingNotified = FALSE ]
                        = [ before.onHold[o][1] EXCEPT !.waitingNotified = FALSE ]
                  /\ WaitingFlag(before.onHold[o]) => WaitingFlag(onHoldUsers[o])
                  /\ before.onHold[o][1].status # "ACCEPT_PENDING" =>
                        /\ ~WaitingFlag(onHoldUsers[o])
                        /\ TextsAbout(o, { "yourTurn" }) = {}

\* an on-hold occupant with a recipient, stored as "WAITING", is reported as
\* "ACCEPT_PENDING" and gets no "your turn"
C17_Witness ==
    /\ Polled
    /\ \E o \in Outlets :
          /\ OnHoldIdStays(o)
          /\ ObservedOnce(detail[1].onHoldUsers, o)
          /\ before.onHold[o][1].status = "WAITING"
          /\ ObservedEntry(detail[1].onHoldUsers, o).status = "ACCEPT_PENDING"
          /\ HasSlackUser(slackUserIds, before.onHold[o][1].name)
          /\ onHoldUsers[o][1].status = "WAITING"
          /\ TextsAbout(o, { "yourTurn" }) = {}

\* an invocation returns at one of the gates
GatedReturn == cycles' = cycles + 1 /\ last'.outcome = "gated"

\* an invocation returns after both loops
PolledReturn == last.outcome = "awaiting" /\ last'.outcome = "polled"

(***************************************************************************)
(* C18  Polling never stops without a failure.  A cycle that returns at a  *)
(* gate arms exactly one timer, weekendSleepTime (weekend check) or        *)
(* afterHoursSleepTime (working-hours check) after its invocation, leaves  *)
(* token, lastAuth and every stored record as they were and emits nothing; *)
(* a cycle that returns after polling arms exactly one timer, pollingDelay *)
(* after its return.  So as long as no exchange and no fetch has failed,   *)
(* exactly one invocation is pending on a timer or in flight.              *)
(***************************************************************************)
C18_PollingGoesOn ==
    [][ /\ GatedReturn =>
              /\ timers' = << last'.at + (IF IsWeekendGate(last'.at)
                                           THEN weekendSleepTime
                                           ELSE afterHoursSleepTime) >>
              /\ flights' = <<>>
              /\ session' = session
              /\ stored' = stored
              /\ fetches' = fetches
              /\ Emitted' = <<>>
        /\ PolledReturn =>
              /\ timers' = << now' + pollingDelay >>
              /\ flights' = <<>>
        /\ (unhandled' = 0 /\ startup' # "rejected") =>
              Len(timers') + Len(flights') = 1 ]_vars

\* a cycle was gated by the working-hours check with a token held and a
\* flagged record stored, and its timer is pending
C18_Witness ==
    /\ last.outcome = "gated"
    /\ IsAfterHoursGate(last.at)
    /\ ~IsWeekendGate(last.at)
    /\ chargePointToken # <<>>
    /\ ExitFlag(chargingUsers[1])
    /\ timers = << last.at + afterHoursSleepTime >>

====
